---- MODULE Spec2Model ----
(***************************************************************************)
(* Log reduction pipeline of jira-auto-analyze (src/src/filter.py):        *)
(* LogFilter.filter_log, LogFilter.extract_error_sections,                 *)
(* LogFilter.estimate_tokens and LogFilter.optimize_for_token_limit.       *)
(*                                                                         *)
(* Text is a sequence of one-character strings, so that str.split,         *)
(* str.join, len and the regular-expression searches are computed on       *)
(* characters, as the Python code computes them.                           *)
(***************************************************************************)
EXTENDS Integers, Sequences, FiniteSets, TLC

VARIABLES
    content,            \* the log text handed to filter_log / optimize_for_token_limit
    max_lines,          \* filter_log's max_lines argument (0 stands for None)
    max_tokens,         \* optimize_for_token_limit's max_tokens argument
    strategy,           \* optimize_for_token_limit's strategy argument
    keywords,           \* LogFilter.keywords
    patterns,           \* LogFilter.patterns
    context_before,     \* LogFilter.context_before
    context_after,      \* LogFilter.context_after
    case_sensitive,     \* LogFilter.case_sensitive
    compiled_patterns,  \* LogFilter.compiled_patterns
    filter_result,      \* what filter_log returned
    optimize_result,    \* what optimize_for_token_limit returned
    reoptimize_result,  \* what a second optimize_for_token_limit on that output returned
    extract_result,     \* what extract_error_sections returned
    pc,                 \* which calls have returned
    ctor,               \* the arguments LogFilter(...) is called with
    calls,              \* the calls in progress on a shared LogFilter, per caller
    filtered_logs,      \* what TicketAnalyzer._filter_logs returned
    download            \* AttachmentDownloader.download_all: its arguments, the
                        \* files on disk, the servers' answers and its summary

vars == <<content, max_lines, max_tokens, strategy, keywords, patterns,
          context_before, context_after, case_sensitive, compiled_patterns,
          filter_result, optimize_result, reoptimize_result, extract_result, pc,
          ctor, calls,
                   filtered_logs, download>>

config == <<keywords, patterns, context_before, context_after, case_sensitive,
            compiled_patterns>>

(***************************************************************************)
(* Bounds of the model.                                                    *)
(***************************************************************************)
MaxLines == 3        \* lines of a short log handed to filter_log
MaxContext == 1      \* largest context_lines_before / context_lines_after
MaxMaxLines == 2     \* largest max_lines argument
MaxOptLines == 3     \* lines of a log handed to optimize_for_token_limit
MaxTokens == 2       \* largest max_tokens argument
MaxSectionLines == 4 \* lines of a log handed to extract_error_sections
MaxSharedLines == 2  \* lines of a log handed to a filter that two callers share
MaxPatternLen == 2   \* characters of a pattern or keyword given to LogFilter(...)
MaxEmptyLines == 2   \* lines of a log handed to a filter that has an empty keyword
MaxAttachments == 2  \* attachments handed to download_all

(***************************************************************************)
(* Program constants.                                                      *)
(***************************************************************************)
SampleSize == 100        \* head sample of the no-match branch
MatchDetailLimit == 20   \* match records returned
CharsPerToken == 4       \* estimate_tokens
DefaultTargetLines == 100

(***************************************************************************)
(* Python built-ins on text and lists.                                     *)
(***************************************************************************)
Min(a, b) == IF a < b THEN a ELSE b
Max(a, b) == IF a > b THEN a ELSE b

NL == "\n"

Whitespace == {" ", "\t", "\n", "\r", "\f"}

UpperToLower ==
    ("A" :> "a") @@ ("B" :> "b") @@ ("C" :> "c") @@ ("D" :> "d") @@ ("E" :> "e") @@
    ("F" :> "f") @@ ("G" :> "g") @@ ("H" :> "h") @@ ("I" :> "i") @@ ("J" :> "j") @@
    ("K" :> "k") @@ ("L" :> "l") @@ ("M" :> "m") @@ ("N" :> "n") @@ ("O" :> "o") @@
    ("P" :> "p") @@ ("Q" :> "q") @@ ("R" :> "r") @@ ("S" :> "s") @@ ("T" :> "t") @@
    ("U" :> "u") @@ ("V" :> "v") @@ ("W" :> "w") @@ ("X" :> "x") @@ ("Y" :> "y") @@
    ("Z" :> "z")

\* re.IGNORECASE compares characters without regard to case
Lower(c) == IF c \in DOMAIN UpperToLower THEN UpperToLower[c] ELSE c

LowerText(s) == [i \in 1..Len(s) |-> Lower(s[i])]

\* split('\n') giving no line at all for ''
SplitNothingOfEmpty(s) ==
    IF Len(s) = 0 THEN <<>>
    ELSE
    LET breaks == SelectSeq([i \in 1..Len(s) |-> i], LAMBDA i : s[i] = NL)
        n      == Len(breaks) + 1
    IN  [k \in 1..n |->
            SubSeq(s,
                   IF k = 1 THEN 1 ELSE breaks[k - 1] + 1,
                   IF k = n THEN Len(s) ELSE breaks[k] - 1)]

\* str.split('\n'): the fields between newlines; '' splits into ['']
Split(s) ==
    LET breaks == SelectSeq([i \in 1..Len(s) |-> i], LAMBDA i : s[i] = NL)
        n      == Len(breaks) + 1
    IN  [k \in 1..n |->
            SubSeq(s,
                   IF k = 1 THEN 1 ELSE breaks[k - 1] + 1,
                   IF k = n THEN Len(s) ELSE breaks[k] - 1)]

\* sep.join(items), joining the two halves of a long list
RECURSIVE Join(_, _)
Join(items, sep) ==
    IF Len(items) = 0 THEN <<>>
    ELSE IF Len(items) = 1 THEN items[1]
    ELSE LET half == Len(items) \div 2
         IN  Join(SubSeq(items, 1, half), sep) \o sep
             \o Join(SubSeq(items, half + 1, Len(items)), sep)

\* items[:k]
SliceTo(items, k) ==
    IF k >= 0 THEN SubSeq(items, 1, Min(k, Len(items)))
    ELSE SubSeq(items, 1, Len(items) + k)

\* items[start:], start counted from the end when negative
SliceFrom(items, start) ==
    LET first == IF start < 0 THEN Max(0, Len(items) + start)
                 ELSE Min(start, Len(items))
    IN  SubSeq(items, first + 1, Len(items))

\* int(x) of the quotient num / den, den > 0: truncation toward zero
IntQuotient(num, den) ==
    IF num >= 0 THEN num \div den ELSE 0 - ((0 - num) \div den)

\* str(n) for n >= 0
DigitChars == <<"0", "1", "2", "3", "4", "5", "6", "7", "8", "9">>

RECURSIVE Str(_)
Str(n) ==
    IF n < 10 THEN <<DigitChars[n + 1]>>
    ELSE Str(n \div 10) \o <<DigitChars[(n % 10) + 1]>>

\* not line.strip()
IsBlank(line) == \A i \in 1..Len(line) : line[i] \in Whitespace

\* sorted(indices) for a set of indices below n
Sorted(indices, n) ==
    SelectSeq([i \in 1..n |-> i - 1], LAMBDA i : i \in indices)

(***************************************************************************)
(* Regular expressions: the patterns of this model are literals, possibly  *)
(* with backslash-escaped characters (what re.escape produces).            *)
(***************************************************************************)
ReSpecial == {"(", ")", "[", "]", "{", "}", "?", "*", "+", "-", "|", "^", "$",
              "\\", ".", "&", "~", "#", " ", "\t", "\n", "\r", "\f"}

\* re.escape that escapes nothing
EscapeNothing(s) == s

\* re.escape(keyword)
RECURSIVE Escape(_)
Escape(s) ==
    IF Len(s) = 0 THEN <<>>
    ELSE (IF Head(s) \in ReSpecial THEN <<"\\", Head(s)>> ELSE <<Head(s)>>)
         \o Escape(Tail(s))

\* the literal text a pattern source stands for
RECURSIVE Literal(_)
Literal(p) ==
    IF Len(p) = 0 THEN <<>>
    ELSE IF Head(p) = "\\" /\ Len(p) >= 2 THEN <<p[2]>> \o Literal(Tail(Tail(p)))
    ELSE <<Head(p)>> \o Literal(Tail(p))

\* text occurs somewhere in line
Occurs(text, line) ==
    \E i \in 1..(Len(line) - Len(text) + 1) :
        \A j \in 1..Len(text) : line[i + j - 1] = text[j]

\* re.compile(pattern, flags)
Compile(source, ignorecase) == [pattern |-> source, ignorecase |-> ignorecase]

\* compiled.search(line) is not None
Search(compiled, line) ==
    IF compiled.ignorecase
    THEN Occurs(LowerText(Literal(compiled.pattern)), LowerText(line))
    ELSE Occurs(Literal(compiled.pattern), line)

\* whether re.compile accepts p from position i on, inside depth open groups,
\* prev telling what stands before position i: "none" at the start of the
\* pattern or of a group, "atom" after something a repeat may follow, "repeat"
\* after a repeat. The rules are those of the characters of PatternChars;
\* every other character is taken as a literal.
RECURSIVE ValidFrom(_, _, _, _)
ValidFrom(p, i, depth, prev) ==
    IF i > Len(p) THEN depth = 0
    ELSE IF p[i] = "\\"
    THEN i + 1 <= Len(p) /\ ValidFrom(p, i + 2, depth, "atom")
    ELSE IF p[i] = "("
    THEN ValidFrom(p, i + 1, depth + 1, "none")
    ELSE IF p[i] = ")"
    THEN depth > 0 /\ ValidFrom(p, i + 1, depth - 1, "atom")
    ELSE IF p[i] = "*"
    THEN prev = "atom" /\ ValidFrom(p, i + 1, depth, "repeat")
    ELSE ValidFrom(p, i + 1, depth, "atom")

\* re.compile(p, flags) does not raise re.error
ValidRegex(p) == ValidFrom(p, 1, 0, "none")

(***************************************************************************)
(* LogFilter.__init__                                                      *)
(***************************************************************************)
CompilePatterns(pats, kws, cs) ==
    [i \in 1..Len(pats) |-> Compile(pats[i], ~cs)]
    \o [i \in 1..Len(kws) |-> Compile(Escape(kws[i]), ~cs)]

(***************************************************************************)
(* LogFilter.filter_log                                                    *)
(***************************************************************************)
\* FirstMatch naming the last pattern that matches (the loop without its break)
LastMatch(cp, line) ==
    IF \E k \in 1..Len(cp) : Search(cp[k], line)
    THEN CHOOSE k \in 1..Len(cp) :
            /\ Search(cp[k], line)
            /\ \A m \in (k + 1)..Len(cp) : ~Search(cp[m], line)
    ELSE 0

\* the first compiled pattern, in list order, that matches the line (0: none)
FirstMatch(cp, line) ==
    IF \E k \in 1..Len(cp) : Search(cp[k], line)
    THEN CHOOSE k \in 1..Len(cp) :
            /\ Search(cp[k], line)
            /\ \A m \in 1..(k - 1) : ~Search(cp[m], line)
    ELSE 0

\* the 0-based indices of the lines on which the inner loop reaches its break
MatchingIndices(cp, lines) ==
    {idx \in 0..(Len(lines) - 1) : FirstMatch(cp, lines[idx + 1]) # 0}

\* ContextWindow with the end of the range one short
ContextWindowShort(idx, n, cb, ca) ==
    LET start == Max(0, idx - cb)
        end   == Min(n, idx + ca)
    IN  start..(end - 1)

\* range(start, end) of one matching line
ContextWindow(idx, n, cb, ca) ==
    LET start == Max(0, idx - cb)
        end   == Min(n, idx + ca + 1)
    IN  start..(end - 1)

\* MatchedIndices with windows added only while matches has room
MatchedIndicesOfListed(cp, lines, cb, ca) ==
    LET hits == Sorted(MatchingIndices(cp, lines), Len(lines))
    IN  UNION {ContextWindow(hits[k], Len(lines), cb, ca) :
                  k \in 1..Min(Len(hits), MatchDetailLimit)}

\* matched_indices after the loop
MatchedIndices(cp, lines, cb, ca) ==
    UNION {ContextWindow(idx, Len(lines), cb, ca) : idx \in MatchingIndices(cp, lines)}

\* matches after the loop
MatchRecords(cp, lines) ==
    LET hits == Sorted(MatchingIndices(cp, lines), Len(lines))
    IN  [k \in 1..Len(hits) |->
            [line_number |-> hits[k] + 1,
             line        |-> lines[hits[k] + 1],
             pattern     |-> cp[FirstMatch(cp, lines[hits[k] + 1])].pattern]]

\* [lines[i] for i in sorted(matched_indices)]
ExtractMatched(lines, matched_indices) ==
    LET order == Sorted(matched_indices, Len(lines))
    IN  [k \in 1..Len(order) |-> lines[order[k] + 1]]

\* KeptLines with each matching line's window emitted on its own, not merged
RECURSIVE WindowsInTurn(_, _, _, _)
WindowsInTurn(hits, lines, cb, ca) ==
    IF Len(hits) = 0 THEN <<>>
    ELSE ExtractMatched(lines, ContextWindow(Head(hits), Len(lines), cb, ca))
         \o WindowsInTurn(Tail(hits), lines, cb, ca)

KeptLinesPerWindow(cp, lines, cb, ca) ==
    WindowsInTurn(Sorted(MatchingIndices(cp, lines), Len(lines)), lines, cb, ca)

\* filtered_lines before max_lines is applied
KeptLines(cp, lines, cb, ca) ==
    ExtractMatched(lines, MatchedIndices(cp, lines, cb, ca))

\* ApplyMaxLines keeping the last max_lines lines
ApplyMaxLinesTail(filtered_lines, ml, n_matched, total_lines) ==
    IF ml # 0 /\ Len(filtered_lines) > ml
    THEN [lines |-> SliceFrom(filtered_lines, 0 - ml), truncated |-> TRUE]
    ELSE [lines |-> filtered_lines, truncated |-> n_matched < total_lines]

\* ApplyMaxLines with the flag of a cut result computed as for an uncut one
ApplyMaxLinesUnflagged(filtered_lines, ml, n_matched, total_lines) ==
    IF ml # 0 /\ Len(filtered_lines) > ml
    THEN [lines |-> SliceTo(filtered_lines, ml), truncated |-> n_matched < total_lines]
    ELSE [lines |-> filtered_lines, truncated |-> n_matched < total_lines]

\* the lines kept and the truncated flag once max_lines is applied
ApplyMaxLines(filtered_lines, ml, n_matched, total_lines) ==
    IF ml # 0 /\ Len(filtered_lines) > ml
    THEN [lines |-> SliceTo(filtered_lines, ml), truncated |-> TRUE]
    ELSE [lines |-> filtered_lines, truncated |-> n_matched < total_lines]

\* FilterNoPatterns that also truncates a log of exactly max_lines lines
FilterNoPatternsAtLimit(text, lines, ml) ==
    LET total_lines == Len(lines)
    IN  IF ml # 0 /\ total_lines >= ml
        THEN LET filtered_lines == SliceTo(lines, ml)
             IN  [content        |-> Join(filtered_lines, <<NL>>),
                  matched_lines  |-> 0,
                  total_lines    |-> total_lines,
                  filtered_lines |-> Len(filtered_lines),
                  truncated      |-> TRUE,
                  matches        |-> <<>>]
        ELSE [content        |-> text,
              matched_lines  |-> 0,
              total_lines    |-> total_lines,
              filtered_lines |-> total_lines,
              truncated      |-> FALSE,
              matches        |-> <<>>]

\* the branch taken when no pattern is compiled
FilterNoPatterns(text, lines, ml) ==
    LET total_lines == Len(lines)
    IN  IF ml # 0 /\ total_lines > ml
        THEN LET filtered_lines == SliceTo(lines, ml)
             IN  [content        |-> Join(filtered_lines, <<NL>>),
                  matched_lines  |-> 0,
                  total_lines    |-> total_lines,
                  filtered_lines |-> Len(filtered_lines),
                  truncated      |-> TRUE,
                  matches        |-> <<>>]
        ELSE [content        |-> text,
              matched_lines  |-> 0,
              total_lines    |-> total_lines,
              filtered_lines |-> total_lines,
              truncated      |-> FALSE,
              matches        |-> <<>>]

\* FilterNoMatches with the sample size not limited by the log's length
FilterNoMatchesFixedSample(lines) ==
    LET total_lines == Len(lines)
        sample_size == SampleSize
    IN  [content        |-> Join(SliceTo(lines, sample_size), <<NL>>),
         matched_lines  |-> 0,
         total_lines    |-> total_lines,
         filtered_lines |-> sample_size,
         truncated      |-> sample_size < total_lines,
         matches        |-> <<>>]

\* FilterNoMatches reporting a full-length sample as truncated
FilterNoMatchesFlagOff(lines) ==
    LET total_lines == Len(lines)
        sample_size == Min(SampleSize, total_lines)
    IN  [content        |-> Join(SliceTo(lines, sample_size), <<NL>>),
         matched_lines  |-> 0,
         total_lines    |-> total_lines,
         filtered_lines |-> sample_size,
         truncated      |-> sample_size <= total_lines,
         matches        |-> <<>>]

\* FilterNoMatches returning nothing instead of a sample
FilterNoMatchesNoSample(lines) ==
    [content        |-> <<>>,
     matched_lines  |-> 0,
     total_lines    |-> Len(lines),
     filtered_lines |-> 0,
     truncated      |-> Len(lines) > 0,
     matches        |-> <<>>]

\* the branch taken when no line matched
FilterNoMatches(lines) ==
    LET total_lines == Len(lines)
        sample_size == Min(SampleSize, total_lines)
    IN  [content        |-> Join(SliceTo(lines, sample_size), <<NL>>),
         matched_lines  |-> 0,
         total_lines    |-> total_lines,
         filtered_lines |-> sample_size,
         truncated      |-> sample_size < total_lines,
         matches        |-> <<>>]

FilterLog(cp, cb, ca, text, ml) ==
    LET lines == Split(text)
        total_lines == Len(lines)
    IN  IF Len(cp) = 0 THEN FilterNoPatterns(text, lines, ml)
        ELSE
        LET matched_indices == MatchedIndices(cp, lines, cb, ca)
            matches == MatchRecords(cp, lines)
        IN  IF matched_indices = {} THEN FilterNoMatches(lines)
            ELSE
            LET capped == ApplyMaxLines(KeptLines(cp, lines, cb, ca), ml,
                                        Cardinality(matched_indices), total_lines)
            IN  [content        |-> Join(capped.lines, <<NL>>),
                 matched_lines  |-> Len(matches),
                 total_lines    |-> total_lines,
                 filtered_lines |-> Len(capped.lines),
                 truncated      |-> capped.truncated,
                 matches        |-> SliceTo(matches, MatchDetailLimit)]

(***************************************************************************)
(* LogFilter.extract_error_sections                                        *)
(***************************************************************************)
ErrorWords == {<<"e", "r", "r", "o", "r">>,
               <<"e", "x", "c", "e", "p", "t", "i", "o", "n">>,
               <<"f", "a", "t", "a", "l">>,
               <<"c", "r", "i", "t", "i", "c", "a", "l">>}

\* error_start.search(line): (?i)(error|exception|fatal|critical)
ErrorStart(line) == \E w \in ErrorWords : Occurs(w, LowerText(line))

\* the length of the run of characters of class cls that starts at position i
RECURSIVE Run(_, _, _)
Run(line, i, cls) ==
    IF i <= Len(line) /\ line[i] \in cls THEN 1 + Run(line, i + 1, cls) ELSE 0

Digits == {"0", "1", "2", "3", "4", "5", "6", "7", "8", "9"}

\* stack_trace.search(line): ^\s+at\s+|^\s+File\s+"|^\s+\d+\s+
\* (\s+ may give characters back, so every split of the leading run is tried)
StackTrace(line) ==
    \E w \in 1..Run(line, 1, Whitespace) :
        LET i == w + 1
        IN  \/ /\ i + 2 <= Len(line)
               /\ SubSeq(line, i, i + 1) = <<"a", "t">>
               /\ line[i + 2] \in Whitespace
            \/ /\ i + 4 <= Len(line)
               /\ SubSeq(line, i, i + 3) = <<"F", "i", "l", "e">>
               /\ \E k \in 1..Run(line, i + 4, Whitespace) :
                      /\ i + 4 + k <= Len(line)
                      /\ line[i + 4 + k] = "\""
            \/ /\ Run(line, i, Digits) >= 1
               /\ i + Run(line, i, Digits) <= Len(line)
               /\ line[i + Run(line, i, Digits)] \in Whitespace

NoSection == [open |-> FALSE]

\* the loop with two of its branches switched off: with restart FALSE a marker
\* line met while a section is open is appended to that section, with clear
\* FALSE a blank line is skipped and leaves the section open
RECURSIVE ScanSectionsWith(_, _, _, _, _, _)
ScanSectionsWith(lines, idx, error_sections, current, restart, clear) ==
    IF idx >= Len(lines)
    THEN IF current.open
         THEN Append(error_sections,
                     [current EXCEPT !.has_end = TRUE, !.end_line = Len(lines)])
         ELSE error_sections
    ELSE
    LET line == lines[idx + 1]
    IN  IF ErrorStart(line) /\ (restart \/ ~current.open)
        THEN ScanSectionsWith(lines, idx + 1,
                 IF current.open THEN Append(error_sections, current)
                                 ELSE error_sections,
                 [open |-> TRUE, start_line |-> idx + 1, lines |-> <<line>>,
                  has_end |-> FALSE, end_line |-> 0], restart, clear)
        ELSE IF current.open /\ ~IsBlank(line)
        THEN ScanSectionsWith(lines, idx + 1, error_sections,
                 [current EXCEPT !.lines = Append(@, line)], restart, clear)
        ELSE IF current.open /\ clear
        THEN ScanSectionsWith(lines, idx + 1,
                 Append(error_sections,
                        [current EXCEPT !.has_end = TRUE, !.end_line = idx]),
                 NoSection, restart, clear)
        ELSE ScanSectionsWith(lines, idx + 1, error_sections, current,
                              restart, clear)

\* the loop without the reset of current_section at a blank line
ScanSectionsThroughBlank(lines, idx, error_sections, current) ==
    ScanSectionsWith(lines, idx, error_sections, current, TRUE, FALSE)

\* the loop over enumerate(lines), from index idx on; current is the open
\* section (NoSection for None)
RECURSIVE ScanSections(_, _, _, _)
ScanSections(lines, idx, error_sections, current) ==
    IF idx >= Len(lines)
    THEN \* Add last section if exists
         IF current.open
         THEN Append(error_sections,
                     [current EXCEPT !.has_end = TRUE, !.end_line = Len(lines)])
         ELSE error_sections
    ELSE
    LET line == lines[idx + 1]
    IN  IF ErrorStart(line)
        THEN ScanSections(lines, idx + 1,
                 IF current.open THEN Append(error_sections, current)
                                 ELSE error_sections,
                 [open |-> TRUE, start_line |-> idx + 1, lines |-> <<line>>,
                  has_end |-> FALSE, end_line |-> 0])
        ELSE IF current.open /\ StackTrace(line)
        THEN ScanSections(lines, idx + 1, error_sections,
                 [current EXCEPT !.lines = Append(@, line)])
        ELSE IF current.open /\ ~IsBlank(line)
        THEN ScanSections(lines, idx + 1, error_sections,
                 [current EXCEPT !.lines = Append(@, line)])
        ELSE IF current.open /\ IsBlank(line)
        THEN ScanSections(lines, idx + 1,
                 Append(error_sections,
                        [current EXCEPT !.has_end = TRUE, !.end_line = idx]),
                 NoSection)
        ELSE ScanSections(lines, idx + 1, error_sections, current)

\* one entry of formatted_sections
FormatSection(section) ==
    [start_line |-> section.start_line,
     end_line   |-> IF section.has_end THEN section.end_line ELSE section.start_line,
     content    |-> Join(section.lines, <<NL>>),
     line_count |-> Len(section.lines)]

\* extract_error_sections where a marker line does not close an open section
ExtractErrorSectionsMerged(text) ==
    LET error_sections ==
            ScanSectionsWith(Split(text), 0, <<>>, NoSection, FALSE, TRUE)
    IN  [k \in 1..Len(error_sections) |->
            [start_line |-> error_sections[k].start_line,
             end_line   |-> error_sections[k].end_line,
             content    |-> Join(error_sections[k].lines, <<NL>>),
             line_count |-> Len(error_sections[k].lines)]]

ExtractErrorSections(text) ==
    LET error_sections == ScanSections(Split(text), 0, <<>>, NoSection)
    IN  [k \in 1..Len(error_sections) |-> FormatSection(error_sections[k])]

(***************************************************************************)
(* LogFilter.estimate_tokens                                               *)
(***************************************************************************)
EstimateTokens(text) == Len(text) \div CharsPerToken

(***************************************************************************)
(* LogFilter.optimize_for_token_limit                                      *)
(***************************************************************************)
SectionSeparator ==
    <<"\n", "\n", "-", "-", "-", " ", "E", "r", "r", "o", "r", " ", "S", "e", "c",
      "t", "i", "o", "n", " ", "-", "-", "-", "\n", "\n">>

\* f"\n\n... [TRUNCATED: {n} lines] ...\n\n"
TruncationMarker(n) ==
    <<"\n", "\n", ".", ".", ".", " ", "[", "T", "R", "U", "N", "C", "A", "T", "E",
      "D", ":", " ">>
    \o Str(n)
    \o <<" ", "l", "i", "n", "e", "s", "]", " ", ".", ".", ".", "\n", "\n">>

\* TargetLines with 0 lines, not 100, as the target of content without characters
TargetLinesNoDefault(target_chars, total_chars, n_lines) ==
    IF total_chars > 0
    THEN IntQuotient(target_chars * n_lines, total_chars)
    ELSE 0

\* int(target_chars / chars_per_line) with chars_per_line = total_chars / n_lines.
\* The code divides in floating point; for the sizes of this model the float
\* quotient truncates to the same integer as the exact quotient.
TargetLines(target_chars, total_chars, n_lines) ==
    IF total_chars > 0
    THEN IntQuotient(target_chars * n_lines, total_chars)
    ELSE DefaultTargetLines

\* the joined error sections
ErrorContent(error_sections) ==
    Join([k \in 1..Len(error_sections) |-> error_sections[k].content],
         SectionSeparator)

\* the 'smart' step without the test of the joined sections against max_tokens
SmartFitsUnchecked(text, mt, strat) ==
    /\ strat = "smart"
    /\ Len(ExtractErrorSections(text)) > 0

\* the 'smart' step: the error_extraction result, when it is returned
SmartFits(text, mt, strat) ==
    /\ strat = "smart"
    /\ Len(ExtractErrorSections(text)) > 0
    /\ EstimateTokens(ErrorContent(ExtractErrorSections(text))) <= mt

ErrorExtraction(text, current_tokens) ==
    LET error_sections == ExtractErrorSections(text)
        error_content  == ErrorContent(error_sections)
        error_tokens   == EstimateTokens(error_content)
    IN  [content            |-> error_content,
         original_tokens    |-> current_tokens,
         final_tokens       |-> error_tokens,
         optimized          |-> TRUE,
         strategy           |-> "error_extraction",
         sections_extracted |-> Len(error_sections)]

\* HeadTail with final_tokens estimated before the marker is inserted
HeadTailStaleEstimate(lines, head_lines, tail_lines, current_tokens) ==
    LET head == SliceTo(lines, head_lines)
        tail == SliceFrom(lines, 0 - tail_lines)
        truncated_content ==
            Join(head, <<NL>>)
            \o TruncationMarker(Len(lines) - head_lines - tail_lines)
            \o Join(tail, <<NL>>)
    IN  [content         |-> truncated_content,
         original_tokens |-> current_tokens,
         final_tokens    |-> EstimateTokens(Join(head \o tail, <<NL>>)),
         optimized       |-> TRUE,
         strategy        |-> "head_tail",
         lines_kept      |-> head_lines + tail_lines,
         lines_removed   |-> Len(lines) - head_lines - tail_lines]

\* the head/tail result
HeadTail(lines, head_lines, tail_lines, current_tokens) ==
    LET head == SliceTo(lines, head_lines)
        tail == SliceFrom(lines, 0 - tail_lines)
        truncated_content ==
            Join(head, <<NL>>)
            \o TruncationMarker(Len(lines) - head_lines - tail_lines)
            \o Join(tail, <<NL>>)
    IN  [content         |-> truncated_content,
         original_tokens |-> current_tokens,
         final_tokens    |-> EstimateTokens(truncated_content),
         optimized       |-> TRUE,
         strategy        |-> "head_tail",
         lines_kept      |-> head_lines + tail_lines,
         lines_removed   |-> Len(lines) - head_lines - tail_lines]

\* the head-only result
HeadOnly(lines, target_lines, current_tokens) ==
    LET truncated_content == Join(SliceTo(lines, target_lines), <<NL>>)
    IN  [content         |-> truncated_content,
         original_tokens |-> current_tokens,
         final_tokens    |-> EstimateTokens(truncated_content),
         optimized       |-> TRUE,
         strategy        |-> "head_only",
         lines_kept      |-> Min(target_lines, Len(lines))]

\* the fall back to the head/tail strategy
Fallback(text, mt, current_tokens) ==
    LET lines        == Split(text)
        target_chars == mt * CharsPerToken
        target_lines == TargetLines(target_chars, Len(text), Len(lines))
        head_lines   == target_lines \div 2
        tail_lines   == target_lines \div 2
    IN  IF Len(lines) > head_lines + tail_lines
        THEN HeadTail(lines, head_lines, tail_lines, current_tokens)
        ELSE HeadOnly(lines, target_lines, current_tokens)

\* optimize_for_token_limit with the budget test current_tokens < max_tokens
OptimizeForTokenLimitStrict(text, mt, strat) ==
    LET current_tokens == EstimateTokens(text)
    IN  IF current_tokens < mt
        THEN [content         |-> text,
              original_tokens |-> current_tokens,
              final_tokens    |-> current_tokens,
              optimized       |-> FALSE,
              strategy        |-> "none"]
        ELSE IF SmartFits(text, mt, strat)
        THEN ErrorExtraction(text, current_tokens)
        ELSE Fallback(text, mt, current_tokens)

\* strategy None is written "none"
OptimizeForTokenLimit(text, mt, strat) ==
    LET current_tokens == EstimateTokens(text)
    IN  IF current_tokens <= mt
        THEN [content         |-> text,
              original_tokens |-> current_tokens,
              final_tokens    |-> current_tokens,
              optimized       |-> FALSE,
              strategy        |-> "none"]
        ELSE IF SmartFits(text, mt, strat)
        THEN ErrorExtraction(text, current_tokens)
        ELSE Fallback(text, mt, current_tokens)

(***************************************************************************)
(* Inputs.                                                                 *)
(***************************************************************************)
\* the texts of the lines of a log handed to filter_log
FilterLineTexts ==
    {<<>>, <<"o", "k">>, <<"x">>, <<"F", "a", "t", "a", "l">>}

\* the texts of the lines of a log handed to optimize_for_token_limit
OptLineTexts ==
    {<<>>, <<"x">>, <<"f", "a", "t", "a", "l">>,
     <<"a", "a", "a", "a", "a", "a", "a", "a">>}

\* the logs of 1..n lines over the given line texts
Logs(texts, n) ==
    UNION {{Join(ls, <<NL>>) : ls \in [1..k -> texts]} : k \in 1..n}

\* logs of SampleSize and SampleSize + 1 lines: a filler line repeated, with one
\* marked line, the first or the fifteenth
LongLogs ==
    {Join([i \in 1..k |-> IF i = at THEN marked ELSE filler], <<NL>>) :
        marked \in FilterLineTexts,
        filler \in {<<"o", "k">>, <<"x">>},
        k \in {SampleSize, SampleSize + 1},
        at \in {1, 15}}

\* the texts of the lines of a log on which several patterns can match
MatchLineTexts ==
    {<<"o", "k">>, <<"x">>, <<"F", "a", "t", "a", "l">>,
     <<"x", " ", "F", "a", "t", "a", "l">>}

\* filters of several patterns: a pattern before a keyword, two patterns, and
\* a keyword that re.escape changes
MatchSetups ==
    {[keywords |-> << <<"x">> >>, patterns |-> << <<"f", "a", "t", "a", "l">> >>],
     [keywords |-> <<>>, patterns |-> << <<"x">>, <<"f", "a", "t", "a", "l">> >>],
     [keywords |-> << <<"x", " ", "f", "a", "t", "a", "l">> >>,
      patterns |-> << <<"f", "a", "t", "a", "l">> >>]}

\* the texts of the lines of a log handed to extract_error_sections: an empty
\* and a whitespace-only line, a marker line, a plain line, a stack frame and a
\* plain line long enough to put a log over the budget of two joined markers
SectionLineTexts ==
    {<<>>, <<" ">>, <<"F", "a", "t", "a", "l">>, <<"x">>,
     <<" ", "a", "t", " ", "x">>,
     <<"a", "a", "a", "a", "a", "a", "a", "a", "a", "a", "a", "a",
       "a", "a", "a", "a", "a", "a", "a", "a", "a", "a", "a", "a">>}

\* token budgets around the estimate of two one-line sections joined by the
\* separator (35 characters)
SectionBudgets == {7, 8}

\* the keywords and patterns a LogFilter is constructed with
FilterSetups ==
    {[keywords |-> <<>>, patterns |-> <<>>],
     [keywords |-> << <<"x">> >>, patterns |-> <<>>],
     [keywords |-> <<>>, patterns |-> << <<"f", "a", "t", "a", "l">> >>],
     [keywords |-> << <<"x">> >>, patterns |-> << <<"f", "a", "t", "a", "l">> >>]}

Strategies == {"smart", "head_tail", "head"}

DefaultContextLines == 5
DefaultMaxTokens == 4000

None == [none |-> TRUE]

(***************************************************************************)
(* The state after LogFilter(...) is constructed and the call's arguments  *)
(* are chosen.                                                             *)
(***************************************************************************)
Constructed(setup, cb, ca, cs) ==
    /\ keywords = setup.keywords
    /\ patterns = setup.patterns
    /\ context_before = cb
    /\ context_after = ca
    /\ case_sensitive = cs
    /\ compiled_patterns = CompilePatterns(setup.patterns, setup.keywords, cs)
    /\ ctor = [keywords |-> setup.keywords, patterns |-> setup.patterns,
               context_lines_before |-> cb, context_lines_after |-> ca,
               case_sensitive |-> cs]

NothingReturned ==
    /\ filter_result = None
    /\ optimize_result = None
    /\ reoptimize_result = None
    /\ extract_result = None
    /\ calls = <<>>
    /\ filtered_logs = <<>>
    /\ download = None
    /\ pc = "start"

\* a filter of any configuration, about to filter a log
Init ==
    /\ \E setup \in FilterSetups, cb \in 0..MaxContext, ca \in 0..MaxContext,
          cs \in BOOLEAN : Constructed(setup, cb, ca, cs)
    /\ content \in Logs(FilterLineTexts, MaxLines) \cup LongLogs
    /\ max_lines \in 0..MaxMaxLines
    /\ max_tokens = DefaultMaxTokens
    /\ strategy = "smart"
    /\ NothingReturned

\* a filter of several patterns, about to filter a log
\* the setups 'error,'.split(',') and the like lead to: an empty keyword,
\* alone and after a pattern
EmptyKeywordSetups ==
    {[keywords |-> << <<>> >>, patterns |-> <<>>],
     [keywords |-> << <<>> >>, patterns |-> << <<"f", "a", "t", "a", "l">> >>]}

\* a filter with or without an empty keyword, about to filter a short log
InitEmpty ==
    /\ \E setup \in FilterSetups \cup EmptyKeywordSetups,
          cb, ca \in 0..MaxContext :
          Constructed(setup, cb, ca, FALSE)
    /\ content \in Logs(FilterLineTexts, MaxEmptyLines)
    /\ max_lines \in 0..MaxMaxLines
    /\ max_tokens = DefaultMaxTokens
    /\ strategy = "smart"
    /\ NothingReturned

InitMatch ==
    /\ \E setup \in MatchSetups, c \in 0..MaxContext, cs \in BOOLEAN :
          Constructed(setup, c, c, cs)
    /\ content \in Logs(MatchLineTexts, MaxLines)
    /\ max_lines \in 0..MaxMaxLines
    /\ max_tokens = DefaultMaxTokens
    /\ strategy = "smart"
    /\ NothingReturned

\* a default filter, about to extract the error sections of a log or to fit
\* it into a token budget
InitSections ==
    /\ Constructed([keywords |-> <<>>, patterns |-> <<>>],
                   DefaultContextLines, DefaultContextLines, FALSE)
    /\ content \in Logs(SectionLineTexts, MaxSectionLines)
    /\ max_lines = 0
    /\ max_tokens \in SectionBudgets
    /\ strategy = "smart"
    /\ NothingReturned

\* a default filter, about to fit a log into a token budget
InitOptimize ==
    /\ Constructed([keywords |-> <<>>, patterns |-> <<>>],
                   DefaultContextLines, DefaultContextLines, FALSE)
    /\ content \in Logs(OptLineTexts, MaxOptLines)
    /\ max_lines = 0
    /\ max_tokens \in (-1)..MaxTokens
    /\ strategy \in Strategies
    /\ NothingReturned

(***************************************************************************)
(* The calls.                                                              *)
(***************************************************************************)
filter_log ==
    /\ pc = "start"
    /\ filter_result' = FilterLog(compiled_patterns, context_before, context_after,
                                  content, max_lines)
    /\ pc' = "filtered"
    /\ UNCHANGED <<content, max_lines, max_tokens, strategy, config,
                   optimize_result, reoptimize_result, extract_result, ctor, calls,
                   filtered_logs, download>>

optimize_for_token_limit ==
    /\ pc = "start"
    /\ optimize_result' = OptimizeForTokenLimit(content, max_tokens, strategy)
    /\ pc' = "optimized"
    /\ UNCHANGED <<content, max_lines, max_tokens, strategy, config,
                   filter_result, reoptimize_result, extract_result, ctor, calls,
                   filtered_logs, download>>

extract_error_sections ==
    /\ pc = "start"
    /\ extract_result' = ExtractErrorSections(content)
    /\ pc' = "extracted"
    /\ UNCHANGED <<content, max_lines, max_tokens, strategy, config,
                   filter_result, optimize_result, reoptimize_result, ctor, calls,
                   filtered_logs, download>>

\* optimize_for_token_limit again, on its own output, with the same max_tokens
optimize_again ==
    /\ pc = "optimized"
    /\ reoptimize_result' =
           OptimizeForTokenLimit(optimize_result.content, max_tokens, strategy)
    /\ pc' = "reoptimized"
    /\ UNCHANGED <<content, max_lines, max_tokens, strategy, config,
                   filter_result, optimize_result, extract_result, ctor, calls,
                   filtered_logs, download>>

Next == filter_log

Spec == Init /\ [][Next]_vars

SpecEmpty == InitEmpty /\ [][Next]_vars

SpecMatch == InitMatch /\ [][Next]_vars

\* the callers of one shared LogFilter
Callers == {1, 2}

\* the texts of the lines of the logs the callers hand to the shared filter
SharedLineTexts == {<<"x">>, <<"F", "a", "t", "a", "l">>}

\* filter_log's locals before its first statement
NotCalled(text) ==
    [content |-> text, pc |-> "start", idx |-> 0, matched_indices |-> {},
     matches |-> <<>>, filter_result |-> None, optimize_result |-> None]

\* one LogFilter, and two callers about to run _filter_logs' loop body, each on
\* a log of its own
InitShared ==
    /\ \E setup \in FilterSetups, c \in 0..MaxContext :
           Constructed(setup, c, c, FALSE)
    /\ content = <<>>
    /\ max_lines \in {0, 1}
    /\ max_tokens = 1
    /\ strategy = "smart"
    /\ filter_result = None
    /\ optimize_result = None
    /\ reoptimize_result = None
    /\ extract_result = None
    /\ pc = "start"
    /\ filtered_logs = <<>>
    /\ download = None
    /\ calls \in [Callers -> {NotCalled(text) :
                                 text \in Logs(SharedLineTexts, MaxSharedLines)}]

\* a step of caller c changes that caller's locals only
Step(c, call) ==
    /\ calls' = [calls EXCEPT ![c] = call]
    /\ UNCHANGED <<content, max_lines, max_tokens, strategy, config,
                   filter_result, optimize_result, reoptimize_result,
                   extract_result, pc, ctor, filtered_logs, download>>

\* filter_log up to the loop: the return of the no-pattern branch, or empty
\* matched_indices and matches
filter_log_begin(c) ==
    /\ calls[c].pc = "start"
    /\ IF Len(compiled_patterns) = 0
       THEN Step(c, [calls[c] EXCEPT
                        !.filter_result =
                            FilterNoPatterns(calls[c].content,
                                             Split(calls[c].content), max_lines),
                        !.pc = "filtered"])
       ELSE Step(c, [calls[c] EXCEPT !.pc = "loop"])

\* one iteration of the loop over enumerate(lines) with the locals of caller
\* c, where every caller's matched_indices is one set kept on the filter
LoopIterationOnInstance(cs, c) ==
    LET lines == Split(cs[c].content)
        idx   == cs[c].idx
        line  == lines[idx + 1]
        k     == FirstMatch(compiled_patterns, line)
        held  == UNION {cs[d].matched_indices : d \in DOMAIN cs}
    IN  IF k # 0
        THEN [cs[c] EXCEPT
                 !.matched_indices =
                     held \cup ContextWindow(idx, Len(lines),
                                             context_before, context_after),
                 !.matches = Append(@, [line_number |-> idx + 1,
                                        line        |-> line,
                                        pattern     |-> compiled_patterns[k].pattern]),
                 !.idx = idx + 1]
        ELSE [cs[c] EXCEPT !.idx = idx + 1]

\* one iteration of the loop over enumerate(lines) with the locals of caller c
LoopIteration(cs, c) ==
    LET lines == Split(cs[c].content)
        idx   == cs[c].idx
        line  == lines[idx + 1]
        k     == FirstMatch(compiled_patterns, line)
    IN  IF k # 0
        THEN [cs[c] EXCEPT
                 !.matched_indices =
                     @ \cup ContextWindow(idx, Len(lines),
                                          context_before, context_after),
                 !.matches = Append(@, [line_number |-> idx + 1,
                                        line        |-> line,
                                        pattern     |-> compiled_patterns[k].pattern]),
                 !.idx = idx + 1]
        ELSE [cs[c] EXCEPT !.idx = idx + 1]

filter_log_iterate(c) ==
    /\ calls[c].pc = "loop"
    /\ calls[c].idx < Len(Split(calls[c].content))
    /\ Step(c, LoopIteration(calls, c))

\* filter_log after the loop
FilterLogReturn(call, ml) ==
    LET lines == Split(call.content)
    IN  IF call.matched_indices = {} THEN FilterNoMatches(lines)
        ELSE
        LET capped == ApplyMaxLines(ExtractMatched(lines, call.matched_indices), ml,
                                    Cardinality(call.matched_indices), Len(lines))
        IN  [content        |-> Join(capped.lines, <<NL>>),
             matched_lines  |-> Len(call.matches),
             total_lines    |-> Len(lines),
             filtered_lines |-> Len(capped.lines),
             truncated      |-> capped.truncated,
             matches        |-> SliceTo(call.matches, MatchDetailLimit)]

filter_log_return(c) ==
    /\ calls[c].pc = "loop"
    /\ calls[c].idx >= Len(Split(calls[c].content))
    /\ Step(c, [calls[c] EXCEPT !.filter_result = FilterLogReturn(calls[c], max_lines),
                                !.pc = "filtered"])

\* _filter_logs' call of optimize_for_token_limit on the filtered content
optimize_filtered(c) ==
    /\ calls[c].pc = "filtered"
    /\ Step(c, [calls[c] EXCEPT
                   !.optimize_result =
                       OptimizeForTokenLimit(calls[c].filter_result.content,
                                             max_tokens, "smart"),
                   !.pc = "done"])

NextShared ==
    \E c \in Callers :
        \/ filter_log_begin(c)
        \/ filter_log_iterate(c)
        \/ filter_log_return(c)
        \/ optimize_filtered(c)

SpecShared == InitShared /\ [][NextShared]_vars

\* the characters of the patterns and keywords given to the constructor: a
\* literal, the group brackets, a repeat and the escape character
PatternChars == {"a", "(", ")", "*", "\\"}

PatternTexts == UNION {[1..n -> PatternChars] : n \in 0..MaxPatternLen}

\* the patterns argument: no pattern, one pattern, or a pattern before or
\* after a well-formed one
PatternLists ==
    {<<>>} \cup {<<p>> : p \in PatternTexts}
           \cup {<<p, <<"a">> >> : p \in PatternTexts}
           \cup {<<<<"a">>, p>> : p \in PatternTexts}

KeywordLists == {<<>>} \cup {<<k>> : k \in PatternTexts}

\* LogFilter(...) is about to be called: there is no instance yet
InitConstruct ==
    /\ ctor \in [keywords : KeywordLists, patterns : PatternLists,
                 context_lines_before : {DefaultContextLines},
                 context_lines_after : {DefaultContextLines},
                 case_sensitive : BOOLEAN]
    /\ keywords = None
    /\ patterns = None
    /\ context_before = None
    /\ context_after = None
    /\ case_sensitive = None
    /\ compiled_patterns = None
    /\ content = <<>>
    /\ max_lines = 0
    /\ max_tokens = DefaultMaxTokens
    /\ strategy = "smart"
    /\ NothingReturned

\* LogFilter.__init__: re.compile raises on the first source it rejects, and
\* the exception leaves the caller without an instance
construct ==
    /\ pc = "start"
    /\ IF /\ \A i \in 1..Len(ctor.patterns) : ValidRegex(ctor.patterns[i])
          /\ \A i \in 1..Len(ctor.keywords) : ValidRegex(Escape(ctor.keywords[i]))
       THEN /\ keywords' = ctor.keywords
            /\ patterns' = ctor.patterns
            /\ context_before' = ctor.context_lines_before
            /\ context_after' = ctor.context_lines_after
            /\ case_sensitive' = ctor.case_sensitive
            /\ compiled_patterns' = CompilePatterns(ctor.patterns, ctor.keywords,
                                                    ctor.case_sensitive)
            /\ pc' = "constructed"
       ELSE /\ UNCHANGED config
            /\ pc' = "raised"
    /\ UNCHANGED <<content, max_lines, max_tokens, strategy, filter_result,
                   optimize_result, reoptimize_result, extract_result, ctor, calls,
                   filtered_logs, download>>

NextConstruct == construct

SpecConstruct == InitConstruct /\ [][NextConstruct]_vars

\* the keywords option TicketAnalyzer hands to its LogFilter (it hands no
\* patterns)
AnalyzerKeywords == {<<>>, << <<"x">> >>, << <<"f", "a", "t", "a", "l">> >>}

\* a TicketAnalyzer with its options, about to filter one log
InitPipeline ==
    /\ \E kws \in AnalyzerKeywords, context_lines \in 0..MaxContext :
           Constructed([keywords |-> kws, patterns |-> <<>>],
                       context_lines, context_lines, FALSE)
    /\ content \in Logs(OptLineTexts, MaxOptLines)
    /\ max_lines \in 0..MaxMaxLines
    /\ max_tokens \in 1..MaxTokens
    /\ strategy = "smart"
    /\ NothingReturned

\* the entry _filter_logs appends for a log (without the log's filename and
\* its original_lines, which it copies from the log)
FilteredLogEntry(filtered_result, optimized) ==
    [filtered_lines   |-> filtered_result.filtered_lines,
     matched_lines    |-> filtered_result.matched_lines,
     content          |-> optimized.content,
     estimated_tokens |-> optimized.final_tokens,
     optimized        |-> optimized.optimized,
     strategy         |-> optimized.strategy]

\* TicketAnalyzer._filter_logs on a list of one log
filter_logs ==
    /\ pc = "start"
    /\ LET filtered_result == FilterLog(compiled_patterns, context_before,
                                        context_after, content, max_lines)
           optimized == OptimizeForTokenLimit(filtered_result.content,
                                              max_tokens, "smart")
       IN  /\ filter_result' = filtered_result
           /\ optimize_result' = optimized
           /\ filtered_logs' = <<FilteredLogEntry(filtered_result, optimized)>>
    /\ pc' = "reported"
    /\ UNCHANGED <<content, max_lines, max_tokens, strategy, config,
                   reoptimize_result, extract_result, ctor, calls, download>>

NextPipeline == filter_logs

SpecPipeline == InitPipeline /\ [][NextPipeline]_vars

(***************************************************************************)
(* AttachmentDownloader.download_all                                       *)
(***************************************************************************)
FileNames == {"a.log", "b.log"}

\* att['size']
AttachmentSizes == {0, 1}

\* what fetching an attachment's content does: "ok" writes the whole file,
\* "ok_empty" ends well with no chunk written, "partial" fails after the file
\* was opened, "error" fails before (both make _download_with_progress return
\* False), "raises" is an exception that leaves _download_with_progress
Responses == {"ok", "ok_empty", "partial", "error", "raises"}

NoFile == [exists |-> FALSE, st_size |-> 0]

File(size) == [exists |-> TRUE, st_size |-> size]

\* str(issue_dir / filename)
FilePath(filename) == <<"attachments", filename>>

\* the loop over attachments where an exception ends the loop
RECURSIVE DownloadLoopUnguarded(_, _, _, _, _, _)
DownloadLoopUnguarded(attachments, responses, i, disk, downloaded_files, failed_files) ==
    IF i > Len(attachments)
    THEN [disk |-> disk, downloaded_files |-> downloaded_files,
          failed_files |-> failed_files]
    ELSE
    LET att      == attachments[i]
        filename == att.filename
    IN  IF disk[filename].exists /\ disk[filename].st_size = att.size
        THEN DownloadLoopUnguarded(attachments, responses, i + 1, disk,
                                   Append(downloaded_files, FilePath(filename)), failed_files)
        ELSE IF responses[i] = "ok"
        THEN DownloadLoopUnguarded(attachments, responses, i + 1,
                                   [disk EXCEPT ![filename] = File(att.size)],
                                   Append(downloaded_files, FilePath(filename)), failed_files)
        ELSE IF responses[i] = "ok_empty"
        THEN DownloadLoopUnguarded(attachments, responses, i + 1,
                                   [disk EXCEPT ![filename] = File(0)],
                                   Append(downloaded_files, FilePath(filename)), failed_files)
        ELSE IF responses[i] = "partial"
        THEN DownloadLoopUnguarded(attachments, responses, i + 1,
                                   [disk EXCEPT ![filename] = File(0)],
                                   downloaded_files, Append(failed_files, filename))
        ELSE IF responses[i] = "error"
        THEN DownloadLoopUnguarded(attachments, responses, i + 1, disk,
                                   downloaded_files, Append(failed_files, filename))
        ELSE [disk |-> disk, downloaded_files |-> downloaded_files,
              failed_files |-> failed_files]

\* the loop over attachments, from the i-th on
RECURSIVE DownloadLoop(_, _, _, _, _, _)
DownloadLoop(attachments, responses, i, disk, downloaded_files, failed_files) ==
    IF i > Len(attachments)
    THEN [disk |-> disk, downloaded_files |-> downloaded_files,
          failed_files |-> failed_files]
    ELSE
    LET att      == attachments[i]
        filename == att.filename
    IN  \* Skip if already downloaded
        IF disk[filename].exists /\ disk[filename].st_size = att.size
        THEN DownloadLoop(attachments, responses, i + 1, disk,
                          Append(downloaded_files, FilePath(filename)), failed_files)
        ELSE IF responses[i] = "ok"
        THEN DownloadLoop(attachments, responses, i + 1,
                          [disk EXCEPT ![filename] = File(att.size)],
                          Append(downloaded_files, FilePath(filename)), failed_files)
        ELSE IF responses[i] = "ok_empty"
        THEN DownloadLoop(attachments, responses, i + 1,
                          [disk EXCEPT ![filename] = File(0)],
                          Append(downloaded_files, FilePath(filename)), failed_files)
        ELSE IF responses[i] = "partial"
        THEN DownloadLoop(attachments, responses, i + 1,
                          [disk EXCEPT ![filename] = File(0)],
                          downloaded_files, Append(failed_files, filename))
        ELSE \* success is False, or the except branch
             DownloadLoop(attachments, responses, i + 1, disk,
                          downloaded_files, Append(failed_files, filename))

\* the summary download_all returns (without 'directory')
DownloadSummary(attachments, done) ==
    IF Len(attachments) = 0
    THEN [downloaded |-> 0, failed |-> 0, files |-> <<>>]
    ELSE [downloaded   |-> Len(done.downloaded_files),
          failed       |-> Len(done.failed_files),
          total        |-> Len(attachments),
          files        |-> done.downloaded_files,
          failed_files |-> done.failed_files]

\* download_all is about to be called: some files may be on disk already
InitDownload ==
    /\ \E n \in 0..MaxAttachments :
           \E attachments \in [1..n -> [filename : FileNames, size : AttachmentSizes]],
              responses \in [1..n -> Responses],
              disk \in [FileNames -> {NoFile} \cup {File(size) : size \in AttachmentSizes}] :
               download = [attachments |-> attachments, responses |-> responses,
                           disk |-> disk, summary |-> None]
    /\ keywords = None
    /\ patterns = None
    /\ context_before = None
    /\ context_after = None
    /\ case_sensitive = None
    /\ compiled_patterns = None
    /\ ctor = None
    /\ content = <<>>
    /\ max_lines = 0
    /\ max_tokens = DefaultMaxTokens
    /\ strategy = "smart"
    /\ filter_result = None
    /\ optimize_result = None
    /\ reoptimize_result = None
    /\ extract_result = None
    /\ calls = <<>>
    /\ filtered_logs = <<>>
    /\ pc = "start"

download_all ==
    /\ pc = "start"
    /\ LET done == DownloadLoop(download.attachments, download.responses, 1,
                                download.disk, <<>>, <<>>)
       IN  download' = [download EXCEPT
                           !.disk = done.disk,
                           !.summary = DownloadSummary(download.attachments, done)]
    /\ pc' = "downloaded"
    /\ UNCHANGED <<content, max_lines, max_tokens, strategy, config,
                   filter_result, optimize_result, reoptimize_result,
                   extract_result, ctor, calls, filtered_logs>>

NextDownload == download_all

SpecDownload == InitDownload /\ [][NextDownload]_vars

NextSections == extract_error_sections \/ optimize_for_token_limit

SpecSections == InitSections /\ [][NextSections]_vars

NextOptimize == optimize_for_token_limit \/ optimize_again

SpecOptimize == InitOptimize /\ [][NextOptimize]_vars

(***************************************************************************)
(* Properties of optimize_for_token_limit, checked under SpecOptimize.     *)
(***************************************************************************)
Returned == pc \in {"optimized", "reoptimized"}

\* C1: with strategy 'smart' and a positive max_tokens, the returned content's
\* estimate len(content) // 4 is at most max_tokens, whatever strategy is reported.
BudgetFit ==
    (Returned /\ strategy = "smart" /\ max_tokens > 0)
        => Len(optimize_result.content) \div 4 <= max_tokens

\* C2: whenever optimized is true, final_tokens <= original_tokens (stated for
\* the default strategy and a positive max_tokens).
FinalWithinOriginal ==
    (Returned /\ strategy = "smart" /\ max_tokens > 0 /\ optimize_result.optimized)
        => optimize_result.final_tokens <= optimize_result.original_tokens

\* C3: optimizing the output again with the same positive max_tokens (default
\* strategy) either reports optimized = false or returns strictly shorter
\* content; it never returns longer content.
OptimizeIdempotent ==
    (pc = "reoptimized" /\ strategy = "smart" /\ max_tokens > 0)
        => /\ \/ ~reoptimize_result.optimized
              \/ Len(reoptimize_result.content) < Len(optimize_result.content)
           /\ Len(reoptimize_result.content) <= Len(optimize_result.content)

\* C4: in every return branch final_tokens is len(returned content) // 4 and
\* original_tokens is len(input content) // 4.
TokensExact ==
    /\ Returned =>
          /\ optimize_result.final_tokens = Len(optimize_result.content) \div 4
          /\ optimize_result.original_tokens = Len(content) \div 4
    /\ pc = "reoptimized" =>
          /\ reoptimize_result.final_tokens = Len(reoptimize_result.content) \div 4
          /\ reoptimize_result.original_tokens = Len(optimize_result.content) \div 4

\* C4 witness: a head_tail result whose marker changed the estimate, optimized
\* again into an error_extraction result
TokensExactWitness ==
    /\ pc = "reoptimized"
    /\ optimize_result.strategy = "head_tail"
    /\ optimize_result.final_tokens # optimize_result.original_tokens
    /\ reoptimize_result.strategy = "error_extraction"
    /\ reoptimize_result.final_tokens # reoptimize_result.original_tokens

(***************************************************************************)
(* Properties of filter_log, checked under Spec.                           *)
(***************************************************************************)
\* the position in b, after position from, of the first element equal to x
\* (Len(b) + 1 when there is none)
NextAt(b, from, x) ==
    IF \E j \in (from + 1)..Len(b) : b[j] = x
    THEN CHOOSE j \in (from + 1)..Len(b) :
            b[j] = x /\ \A m \in (from + 1)..(j - 1) : b[m] # x
    ELSE Len(b) + 1

\* a[k..] can be read from b at strictly increasing positions after from
RECURSIVE TakenInOrder(_, _, _, _)
TakenInOrder(a, k, b, from) ==
    \/ k > Len(a)
    \/ LET at == NextAt(b, from, a[k])
       IN  at <= Len(b) /\ TakenInOrder(a, k + 1, b, at)

\* the 0-based indices of the lines on which some configured pattern matches
Hits(lines) ==
    {i \in 0..(Len(lines) - 1) :
        \E k \in 1..Len(compiled_patterns) : Search(compiled_patterns[k], lines[i + 1])}

\* the union, over the matching lines i, of [max(0, i - before), min(n - 1, i + after)]
WindowUnion(lines, hits) ==
    LET n == Len(lines)
    IN  {j \in 0..(n - 1) :
            \E i \in hits :
                /\ Max(0, i - context_before) <= j
                /\ j <= Min(n - 1, i + context_after)}

\* the lines at the given indices, in ascending index order
LinesAt(lines, indices) ==
    LET order == Sorted(indices, Len(lines))
    IN  [k \in 1..Len(order) |-> lines[order[k] + 1]]

\* max_lines is set and smaller than count
Caps(count) == max_lines # 0 /\ count > max_lines

\* the number of newline-separated lines of the input
LineCount == Cardinality({i \in 1..Len(content) : content[i] = NL}) + 1

\* C5: in every branch the lines of the returned content are input lines taken
\* at strictly increasing original indices: none twice, none out of order.
OrderPreserved ==
    pc = "filtered" =>
        LET output == Split(filter_result.content)
        IN  /\ TakenInOrder(output, 1, Split(content), 0)
            /\ Len(output) = filter_result.filtered_lines

\* C5 witness: two matching lines whose context windows overlap
OrderPreservedWitness ==
    /\ pc = "filtered"
    /\ filter_result.filtered_lines >= 2
    /\ LET lines == Split(content)
           hits  == Hits(lines)
       IN  \E i, j \in hits :
              /\ i < j
              /\ WindowUnion(lines, {i}) \cap WindowUnion(lines, {j}) # {}

\* C6: with patterns configured, a matching line and no max_lines truncation,
\* the kept lines are exactly those of the union of the clamped context windows.
WindowsExact ==
    (pc = "filtered" /\ Len(compiled_patterns) > 0)
    => LET lines == Split(content)
           hits  == Hits(lines)
           union == WindowUnion(lines, hits)
       IN  (hits # {} /\ ~Caps(Cardinality(union)))
           => /\ Split(filter_result.content) = LinesAt(lines, union)
              /\ filter_result.filtered_lines = Cardinality(union)

\* C6 witness: one match inside the log, kept with its full context on both
\* sides while the lines before and after the window are dropped
WindowsExactWitness ==
    /\ pc = "filtered"
    /\ Len(compiled_patterns) > 0
    /\ max_lines = 0
    /\ context_before >= 1
    /\ context_after >= 1
    /\ filter_result.matched_lines = 1
    /\ filter_result.filtered_lines = context_before + context_after + 1
    /\ filter_result.matches[1].line_number > context_before + 1
    /\ filter_result.matches[1].line_number + context_after < filter_result.total_lines

\* C7: filtered_lines <= total_lines, total_lines being the number of
\* newline-separated lines of the input.
FilteredWithinTotal ==
    pc = "filtered" =>
        /\ filter_result.total_lines = LineCount
        /\ filter_result.filtered_lines <= filter_result.total_lines

\* C7 witness: a log shorter than the head sample goes through the no-match branch
FilteredWithinTotalWitness ==
    /\ pc = "filtered"
    /\ Len(compiled_patterns) > 0
    /\ Hits(Split(content)) = {}
    /\ filter_result.total_lines < SampleSize
    /\ filter_result.filtered_lines = filter_result.total_lines

NoPatternPassThrough ==
    (pc = "filtered" /\ keywords = <<>> /\ patterns = <<>>)
    => /\ filter_result.matched_lines = 0
       /\ IF Caps(LineCount)
          THEN /\ filter_result.content =
                      Join(SubSeq(Split(content), 1, max_lines), <<NL>>)
               /\ filter_result.filtered_lines = max_lines
               /\ filter_result.truncated
          ELSE /\ filter_result.content = content
               /\ filter_result.filtered_lines = LineCount
               /\ ~filter_result.truncated

\* C9 witness: an unfiltered log of exactly max_lines lines passes through whole
NoPatternPassThroughWitness ==
    /\ pc = "filtered"
    /\ keywords = <<>> /\ patterns = <<>>
    /\ max_lines >= 2
    /\ LineCount = max_lines
    /\ filter_result.content = content

\* C10: when patterns match and the union of windows has more than max_lines
\* lines, the result is the first max_lines lines of the union in ascending
\* original order, filtered_lines = max_lines and truncated = true.
MaxLinesCap ==
    (pc = "filtered" /\ Len(compiled_patterns) > 0 /\ max_lines # 0)
    => LET lines == Split(content)
           hits  == Hits(lines)
           union == WindowUnion(lines, hits)
       IN  (hits # {} /\ Caps(Cardinality(union)))
           => /\ Split(filter_result.content)
                     = SubSeq(LinesAt(lines, union), 1, max_lines)
              /\ filter_result.filtered_lines = max_lines
              /\ filter_result.truncated

\* C10 witness: a union of windows that covers the whole log is cut to max_lines
MaxLinesCapWitness ==
    /\ pc = "filtered"
    /\ Len(compiled_patterns) > 0
    /\ max_lines >= 2
    /\ filter_result.truncated
    /\ filter_result.filtered_lines = max_lines
    /\ LET lines == Split(content)
           hits  == Hits(lines)
       IN  /\ hits # {}
           /\ Cardinality(WindowUnion(lines, hits)) = Len(lines)
           /\ lines[1] # lines[Len(lines)]

(***************************************************************************)
(* Properties of the match records, checked under SpecMatch and Spec.      *)
(***************************************************************************)
\* the source of the first pattern, in the filter's pattern order (patterns,
\* then keywords), that matches the line
FirstPatternSource(line) ==
    LET k == CHOOSE k \in 1..Len(compiled_patterns) :
                /\ Search(compiled_patterns[k], line)
                /\ \A m \in 1..(k - 1) : ~Search(compiled_patterns[m], line)
    IN  compiled_patterns[k].pattern

\* C11: matched_lines is the number of lines on which at least one pattern
\* matches; each record names the first pattern in the filter's pattern order
\* that matches its line, with the 1-based line number and the line text, and
\* the records are in ascending line number.
SingleMatchPerLine ==
    (pc = "filtered" /\ Len(compiled_patterns) > 0)
    => LET lines == Split(content)
           hits  == Sorted(Hits(lines), Len(lines))
           recs  == filter_result.matches
       IN  /\ filter_result.matched_lines = Len(hits)
           /\ Len(recs) <= Len(hits)
           /\ \A k \in 1..Len(recs) :
                 /\ recs[k].line_number = hits[k] + 1
                 /\ recs[k].line = lines[hits[k] + 1]
                 /\ recs[k].pattern = FirstPatternSource(lines[hits[k] + 1])
           /\ \A k \in 1..(Len(recs) - 1) :
                 recs[k].line_number < recs[k + 1].line_number

\* C11 witness: a line on which two patterns match is recorded once, under the
\* first of them, which is not the last pattern of the filter
SingleMatchPerLineWitness ==
    /\ pc = "filtered"
    /\ Len(compiled_patterns) = 2
    /\ filter_result.matched_lines >= 2
    /\ Len(filter_result.matches) = filter_result.matched_lines
    /\ \E k \in 1..Len(filter_result.matches) :
          /\ Search(compiled_patterns[1], filter_result.matches[k].line)
          /\ Search(compiled_patterns[2], filter_result.matches[k].line)
          /\ filter_result.matches[k].pattern = compiled_patterns[1].pattern
          /\ compiled_patterns[1].pattern # compiled_patterns[2].pattern

\* C12: matches holds exactly the first min(20, matched_lines) records and
\* matched_lines is not capped, while content, filtered_lines and truncated
\* come from the context windows of all the matching lines.
DetailCapIsMetadataOnly ==
    (pc = "filtered" /\ Len(compiled_patterns) > 0)
    => LET lines == Split(content)
           hits  == Hits(lines)
           order == Sorted(hits, Len(lines))
           union == WindowUnion(lines, hits)
           kept  == LinesAt(lines, union)
           recs  == filter_result.matches
       IN  hits # {}
           => /\ filter_result.matched_lines = Cardinality(hits)
              /\ Len(recs) = (IF Len(order) < 20 THEN Len(order) ELSE 20)
              /\ \A k \in 1..Len(recs) : recs[k].line_number = order[k] + 1
              /\ Split(filter_result.content)
                     = (IF Caps(Len(kept)) THEN SubSeq(kept, 1, max_lines) ELSE kept)
              /\ filter_result.filtered_lines
                     = (IF Caps(Len(kept)) THEN max_lines ELSE Len(kept))
              /\ filter_result.truncated
                     = (Caps(Len(kept)) \/ Len(kept) < Len(lines))

\* C12 witness: more than 20 matching lines, 20 records, and content that
\* reaches beyond the window of the 20th record
DetailCapIsMetadataOnlyWitness ==
    /\ pc = "filtered"
    /\ max_lines = 0
    /\ filter_result.matched_lines > 20
    /\ Len(filter_result.matches) = 20
    /\ filter_result.filtered_lines
          > filter_result.matches[20].line_number + context_after
    /\ filter_result.truncated

\* the 0-based indices of the marker lines, ascending
MarkerLines(lines) ==
    Sorted({i \in 0..(Len(lines) - 1) : ErrorStart(lines[i + 1])}, Len(lines))

\* C13: every marker line starts a section, also while a section is open: the
\* sections are as many as the marker lines, the k-th section starts at the
\* k-th marker line (start_line is its 1-based number and it is the first line
\* of the content), start_line increases, and no marker line means no section
SectionStarts ==
    pc = "extracted" =>
        LET lines   == Split(content)
            markers == MarkerLines(lines)
        IN  /\ Len(extract_result) = Len(markers)
            /\ (Len(markers) = 0 => extract_result = <<>>)
            /\ \A k \in 1..Len(extract_result) :
                   /\ extract_result[k].start_line = markers[k] + 1
                   /\ Split(extract_result[k].content)[1]
                          = lines[extract_result[k].start_line]
                   /\ ErrorStart(Split(extract_result[k].content)[1])
            /\ \A k \in 1..(Len(extract_result) - 1) :
                   extract_result[k].start_line < extract_result[k + 1].start_line

\* a marker line met while the section of the marker line before it is still
\* open: two sections come back
SectionStartsWitness ==
    /\ pc = "extracted"
    /\ Len(extract_result) >= 2
    /\ LET lines == Split(content)
       IN  \E k \in 1..(Len(extract_result) - 1) :
               /\ extract_result[k].line_count >= 2
               /\ extract_result[k + 1].start_line
                      = extract_result[k].start_line + extract_result[k].line_count
               /\ \A i \in extract_result[k].start_line
                           ..extract_result[k + 1].start_line :
                      ~IsBlank(lines[i])

\* the 1-based number of the first line after line s that is a marker line or
\* blank, Len(lines) + 1 when there is none
SectionStop(lines, s) ==
    LET stops == {j \in (s + 1)..Len(lines) :
                      ErrorStart(lines[j]) \/ IsBlank(lines[j])}
    IN  IF stops = {} THEN Len(lines) + 1
        ELSE CHOOSE j \in stops : \A m \in stops : j <= m

\* C14: a section is the contiguous lines from its marker line up to, and
\* excluding, the next marker line, the next blank line or the end of input,
\* whichever is first; a non-marker line with a blank line between it and the
\* marker line before it is in no section; a section open at the end of input
\* has the number of the final line as end_line
SectionExtent ==
    pc = "extracted" =>
        LET lines == Split(content)
            covered == UNION {extract_result[k].start_line
                                ..(extract_result[k].start_line
                                     + extract_result[k].line_count - 1) :
                              k \in 1..Len(extract_result)}
        IN  /\ \A k \in 1..Len(extract_result) :
                   LET s    == extract_result[k].start_line
                       stop == SectionStop(lines, s)
                   IN  /\ extract_result[k].content
                              = Join(SubSeq(lines, s, stop - 1), <<NL>>)
                       /\ extract_result[k].line_count = stop - s
                       /\ (stop = Len(lines) + 1
                              => extract_result[k].end_line = Len(lines))
            /\ \A i \in 1..Len(lines) :
                   (/\ ~ErrorStart(lines[i])
                    /\ \E j \in 1..i :
                           /\ IsBlank(lines[j])
                           /\ \A m \in j..i : ~ErrorStart(lines[m]))
                       => i \notin covered

\* a section closed by a blank line, a plain line after the blank line, and a
\* later section that runs to the end of input
SectionExtentWitness ==
    /\ pc = "extracted"
    /\ Len(extract_result) >= 2
    /\ LET lines == Split(content)
           first == extract_result[1]
           last  == extract_result[Len(extract_result)]
       IN  /\ first.start_line + first.line_count <= Len(lines)
           /\ IsBlank(lines[first.start_line + first.line_count])
           /\ \E i \in 1..Len(lines) :
                  /\ i > first.start_line + first.line_count
                  /\ i < last.start_line
                  /\ ~IsBlank(lines[i])
           /\ last.start_line + last.line_count - 1 = Len(lines)
           /\ last.end_line = Len(lines)

\* the result of optimize_for_token_limit on text that is within the budget
PassedThrough(text, result) ==
    result = [content         |-> text,
              original_tokens |-> Len(text) \div 4,
              final_tokens    |-> Len(text) \div 4,
              optimized       |-> FALSE,
              strategy        |-> "none"]

\* C15: whenever len(content) // 4 <= max_tokens, equality included, the
\* content comes back unchanged with optimized false, final_tokens equal to
\* original_tokens and no strategy, whatever the strategy argument; the result
\* carries nothing a reduction step would add
WithinBudgetPassThrough ==
    /\ (Returned /\ Len(content) \div 4 <= max_tokens)
           => PassedThrough(content, optimize_result)
    /\ (pc = "reoptimized" /\ Len(optimize_result.content) \div 4 <= max_tokens)
           => PassedThrough(optimize_result.content, reoptimize_result)

\* content of more than one line whose estimate equals a positive max_tokens,
\* passed through under a strategy other than the default
WithinBudgetPassThroughWitness ==
    /\ pc = "optimized"
    /\ strategy = "head"
    /\ max_tokens > 0
    /\ Len(content) \div 4 = max_tokens
    /\ Len(Split(content)) > 1
    /\ optimize_result.content = content
    /\ ~optimize_result.optimized

\* the contents of the sections, in order, with the separator between them
JoinedSections(sections) ==
    Join([k \in 1..Len(sections) |-> sections[k].content],
         <<NL, NL>> \o <<"-", "-", "-", " ", "E", "r", "r", "o", "r", " ",
                         "S", "e", "c", "t", "i", "o", "n", " ", "-", "-", "-">>
                    \o <<NL, NL>>)

\* C16: with strategy 'smart' and content over the budget, the joined error
\* sections are returned, as strategy error_extraction with optimized true,
\* exactly when there is at least one section and their joined text has an
\* estimate of at most max_tokens; otherwise the head/tail fallback is taken
ErrorExtractionFirst ==
    (pc = "optimized" /\ strategy = "smart" /\ Len(content) \div 4 > max_tokens) =>
        LET sections == ExtractErrorSections(content)
            joined   == JoinedSections(sections)
            fits     == Len(sections) >= 1 /\ Len(joined) \div 4 <= max_tokens
        IN  /\ fits => /\ optimize_result.content = joined
                       /\ optimize_result.strategy = "error_extraction"
                       /\ optimize_result.optimized
                       /\ optimize_result.sections_extracted = Len(sections)
            /\ ~fits => optimize_result.strategy \in {"head_tail", "head_only"}

\* two sections that fit the budget only just, cut out of a log with a long
\* plain line
ErrorExtractionFirstWitness ==
    /\ pc = "optimized"
    /\ strategy = "smart"
    /\ Len(content) \div 4 > max_tokens
    /\ optimize_result.strategy = "error_extraction"
    /\ optimize_result.sections_extracted >= 2
    /\ optimize_result.final_tokens = max_tokens
    /\ Len(optimize_result.content) < Len(content)

\* head_lines (= tail_lines) of the fall back, for the lines of the content
HalfTarget(lines) ==
    TargetLines(max_tokens * CharsPerToken, Len(content), Len(lines)) \div 2

MarkerAgrees(lines, result, kept_head, kept_tail) ==
    /\ kept_head + kept_tail <= Len(lines)
    /\ result.content
           = Join(SubSeq(lines, 1, kept_head), <<NL>>)
             \o TruncationMarker(Len(lines) - kept_head - kept_tail)
             \o Join(SubSeq(lines, Len(lines) - kept_tail + 1, Len(lines)), <<NL>>)
    /\ result.lines_kept = kept_head + kept_tail
    /\ result.lines_removed = Len(lines) - kept_head - kept_tail

\* C18: in a head_tail result the number in the truncation marker and
\* lines_removed are the number of input lines absent from the content, and
\* lines_kept is the number of input lines present in it (stated for a
\* positive max_tokens)
TruncationMarkerAccurate ==
    (pc = "optimized" /\ max_tokens > 0 /\ optimize_result.strategy = "head_tail") =>
        LET lines == Split(content)
        IN  \E kept_head, kept_tail \in 0..Len(lines) :
                MarkerAgrees(lines, optimize_result, kept_head, kept_tail)

\* C19: the calls leave the fields of the LogFilter as the constructor set
\* them, and with two callers interleaving on one filter, each on its own log,
\* every call returns what it returns when run alone
SharedFilterUnaffected ==
    /\ keywords = ctor.keywords
    /\ patterns = ctor.patterns
    /\ context_before = ctor.context_lines_before
    /\ context_after = ctor.context_lines_after
    /\ case_sensitive = ctor.case_sensitive
    /\ compiled_patterns = CompilePatterns(ctor.patterns, ctor.keywords,
                                           ctor.case_sensitive)
    /\ \A c \in DOMAIN calls :
           /\ calls[c].pc \in {"filtered", "done"} =>
                  calls[c].filter_result
                      = FilterLog(compiled_patterns, context_before, context_after,
                                  calls[c].content, max_lines)
           /\ calls[c].pc = "done" =>
                  calls[c].optimize_result
                      = OptimizeForTokenLimit(
                            FilterLog(compiled_patterns, context_before,
                                      context_after, calls[c].content,
                                      max_lines).content,
                            max_tokens, "smart")

\* one caller has returned from both calls, with matches, while the other is
\* inside filter_log's loop on a different log and holds matched indices
SharedFilterUnaffectedWitness ==
    /\ DOMAIN calls = Callers
    /\ \E c, d \in Callers :
           /\ calls[c].pc = "done"
           /\ calls[c].filter_result.matched_lines > 0
           /\ calls[d].pc = "loop"
           /\ calls[d].idx < Len(Split(calls[d].content))
           /\ calls[d].matched_indices # {}
           /\ calls[d].content # calls[c].content
           /\ calls[d].matched_indices # calls[c].matched_indices

\* C20: LogFilter(...) raises exactly when one of the strings of patterns is
\* not a valid regular expression, whatever the keywords are; when it raises
\* there is no instance, and when it returns every pattern and every escaped
\* keyword is compiled, none skipped
MalformedPatternFailsFast ==
    pc \in {"constructed", "raised"} =>
        /\ pc = "raised" <=> \E i \in 1..Len(ctor.patterns) :
                                 ~ValidRegex(ctor.patterns[i])
        /\ pc = "raised" => compiled_patterns = None /\ patterns = None
        /\ pc = "constructed" =>
               /\ Len(compiled_patterns) = Len(ctor.patterns) + Len(ctor.keywords)
               /\ \A i \in 1..Len(ctor.patterns) :
                      compiled_patterns[i].pattern = ctor.patterns[i]
               /\ \A i \in 1..Len(ctor.keywords) :
                      /\ compiled_patterns[Len(ctor.patterns) + i].pattern
                             = Escape(ctor.keywords[i])
                      /\ Literal(compiled_patterns[Len(ctor.patterns) + i].pattern)
                             = ctor.keywords[i]

\* a malformed pattern after a well-formed one, with a keyword that would be
\* malformed as a pattern: the constructor raised
MalformedPatternFailsFastWitness ==
    /\ pc = "raised"
    /\ Len(ctor.patterns) = 2
    /\ ValidRegex(ctor.patterns[1])
    /\ ~ValidRegex(ctor.patterns[2])
    /\ compiled_patterns = None

\* a keyword that is malformed as a pattern, with well-formed patterns only:
\* the constructor returned
EscapedKeywordAccepted ==
    /\ pc = "constructed"
    /\ Len(ctor.keywords) = 1
    /\ ~ValidRegex(ctor.keywords[1])
    /\ Len(ctor.patterns) = 2

\* C21: every call that reaches the head/tail fall back returns a head_tail or
\* head_only result; the divisor chars_per_line is 0 only for content without
\* characters, and then the result is the one of target_lines = 100: the
\* first 100 lines (all there are), as head_only
NoDivisionByZero ==
    (pc = "optimized" /\ optimize_result.optimized
        /\ optimize_result.strategy # "error_extraction") =>
        LET lines == Split(content)
        IN  /\ optimize_result.strategy \in {"head_tail", "head_only"}
            /\ optimize_result.final_tokens \in Nat
            /\ Len(content) > 0 =>
                   Len(content) * Len(lines) > 0
            /\ Len(content) = 0 =>
                   optimize_result
                       = [content         |-> Join(SubSeq(lines, 1, Min(100, Len(lines))),
                                                   <<NL>>),
                          original_tokens |-> 0,
                          final_tokens    |-> 0,
                          optimized       |-> TRUE,
                          strategy        |-> "head_only",
                          lines_kept      |-> Min(100, Len(lines))]

\* empty content over a negative budget: chars_per_line is 0
NoDivisionByZeroWitness ==
    /\ pc = "optimized"
    /\ content = <<>>
    /\ max_tokens < 0
    /\ optimize_result.optimized
    /\ optimize_result.strategy = "head_only"
    /\ optimize_result.lines_kept = 1

\* C22 as stated: filter_log('') returns content '' with total_lines = 1 and
\* filtered_lines = 1, and with patterns configured it is the no-match sample,
\* with matched_lines = 0 and truncated false
EmptyInputNoMatchSample ==
    (pc = "filtered" /\ content = <<>>) =>
        /\ filter_result.content = <<>>
        /\ filter_result.total_lines = 1
        /\ filter_result.filtered_lines = 1
        /\ Len(compiled_patterns) > 0 =>
               /\ filter_result.matched_lines = 0
               /\ filter_result.matches = <<>>
               /\ ~filter_result.truncated

\* C22: filter_log('') returns content '' with total_lines = 1,
\* filtered_lines = 1 and truncated false under every configuration;
\* matched_lines is 0 without patterns and when no pattern matches the empty
\* line (the no-match sample), and 1, with the empty line as the one match,
\* when a pattern matches the empty line, as an empty keyword does
EmptyInputSingleLine ==
    (pc = "filtered" /\ content = <<>>) =>
        /\ filter_result.content = <<>>
        /\ filter_result.total_lines = 1
        /\ filter_result.filtered_lines = 1
        /\ ~filter_result.truncated
        /\ IF \E k \in 1..Len(compiled_patterns) : Search(compiled_patterns[k], <<>>)
           THEN /\ filter_result.matched_lines = 1
                /\ Len(filter_result.matches) = 1
                /\ filter_result.matches[1].line_number = 1
                /\ filter_result.matches[1].line = <<>>
           ELSE /\ filter_result.matched_lines = 0
                /\ filter_result.matches = <<>>

\* the empty log filtered with an empty keyword: the one line matches
EmptyInputSingleLineWitness ==
    /\ pc = "filtered"
    /\ content = <<>>
    /\ Len(compiled_patterns) > 0
    /\ filter_result.matched_lines = 1
    /\ filter_result.total_lines = 1
    /\ filter_result.content = <<>>

\* C23: whenever max_lines is a positive integer the result has
\* filtered_lines <= max_lines and content of at most max_lines lines, in
\* every branch, the no-match sample included
MaxLinesHardCap ==
    (pc = "filtered" /\ max_lines > 0) =>
        /\ filter_result.filtered_lines <= max_lines
        /\ Len(Split(filter_result.content)) <= max_lines

\* C26: in every branch truncated is true exactly when filtered_lines is less
\* than total_lines, that is when a line of the input is not in the content
TruncatedExact ==
    pc = "filtered" =>
        /\ filter_result.truncated
               <=> filter_result.filtered_lines < filter_result.total_lines
        /\ filter_result.truncated
               <=> Len(Split(filter_result.content)) < Len(Split(content))

\* a log whose windows cover every line, cut by max_lines: truncated, though
\* matched_indices is as large as the log
TruncatedExactWitness ==
    /\ pc = "filtered"
    /\ max_lines > 0
    /\ filter_result.matched_lines = filter_result.total_lines
    /\ filter_result.filtered_lines = max_lines
    /\ filter_result.filtered_lines < filter_result.total_lines
    /\ filter_result.truncated

\* C27 as stated: for an input of length >= 1 and a positive max_lines the
\* returned content has length >= 1
NeverEmptyContent ==
    (pc = "filtered" /\ Len(content) >= 1 /\ max_lines > 0) =>
        Len(filter_result.content) >= 1

\* the first line filter_log keeps before max_lines is applied, when it is
\* not returning the no-match sample
FirstKeptLine(lines) ==
    IF Len(compiled_patterns) = 0 THEN lines[1]
    ELSE LinesAt(lines, WindowUnion(lines, Hits(lines)))[1]

\* C27: for an input of length >= 1 and a positive max_lines at least one line
\* is returned, and the content is empty only when a single line is returned,
\* out of a log of several lines, and that line is empty; the no-match sample
\* and an uncut log without patterns are never empty
EmptyOnlyForOneEmptyLine ==
    (pc = "filtered" /\ Len(content) >= 1 /\ max_lines > 0) =>
        LET lines == Split(content)
        IN  /\ filter_result.filtered_lines >= 1
            /\ Len(filter_result.content) = 0 =>
                   /\ filter_result.filtered_lines = 1
                   /\ filter_result.truncated
                   /\ Len(lines) >= 2
                   /\ FirstKeptLine(lines) = <<>>
            /\ (Len(compiled_patterns) > 0 /\ Hits(lines) = {}) =>
                   Len(filter_result.content) >= 1
            /\ (Len(compiled_patterns) = 0 /\ ~filter_result.truncated) =>
                   filter_result.content = content

\* a log that starts with an empty line, cut to its first line
EmptyOnlyForOneEmptyLineWitness ==
    /\ pc = "filtered"
    /\ Len(content) >= 1
    /\ max_lines = 1
    /\ filter_result.content = <<>>
    /\ filter_result.filtered_lines = 1
    /\ filter_result.total_lines >= 2

\* C24: for every section returned, line_count is the number of lines of
\* content and end_line - start_line + 1 = line_count, whether a blank line,
\* the next marker line or the end of input closed the section
SectionMetadataConsistent ==
    pc = "extracted" =>
        \A k \in 1..Len(extract_result) :
            /\ extract_result[k].line_count = Len(Split(extract_result[k].content))
            /\ extract_result[k].end_line - extract_result[k].start_line + 1
                   = extract_result[k].line_count

\* C25: there are content and a positive max_tokens, with the content over the
\* budget, for which the line count is at most 2 * (target_lines // 2) and
\* optimize_for_token_limit returns strategy head_only with the first
\* target_lines lines
\* (looked at once a call has returned)
HeadOnlyReachable ==
    Returned =>
    \E text \in Logs(OptLineTexts, MaxOptLines), mt \in 1..MaxTokens,
       strat \in Strategies :
        LET lines        == Split(text)
            target_lines == TargetLines(mt * CharsPerToken, Len(text), Len(lines))
            result       == OptimizeForTokenLimit(text, mt, strat)
        IN  /\ Len(text) \div 4 > mt
            /\ Len(lines) <= 2 * (target_lines \div 2)
            /\ result.strategy = "head_only"
            /\ result.content = Join(SubSeq(lines, 1, target_lines), <<NL>>)

\* the lines of the returned content are the leading lines of the input
LeadingLinesOnly(text, result) ==
    LET lines == Split(text)
        kept  == Split(result.content)
    IN  /\ Len(kept) <= Len(lines)
        /\ \A k \in 1..Len(kept) : kept[k] = lines[k]

\* C29: with strategy 'head_tail' or 'head' the result strategy is never
\* error_extraction, and with strategy 'head' content over a positive budget
\* is cut to its leading lines, as head_only
StrategyByArgument ==
    (pc = "optimized" /\ max_tokens > 0 /\ optimize_result.optimized) =>
        /\ strategy \in {"head_tail", "head"} =>
               optimize_result.strategy # "error_extraction"
        /\ strategy = "head" =>
               /\ optimize_result.strategy = "head_only"
               /\ LeadingLinesOnly(content, optimize_result)

\* the sum of line_count over the sections
RECURSIVE SectionLines(_)
SectionLines(sections) ==
    IF Len(sections) = 0 THEN 0
    ELSE Head(sections).line_count + SectionLines(Tail(sections))

\* the number of lines of the filter's output that are in the content the
\* optimizer returned for it
LinesPresent(filtered, optimized) ==
    LET lines == Split(filtered)
    IN  IF optimized.strategy = "none" THEN Len(lines)
        ELSE IF optimized.strategy = "error_extraction"
        THEN SectionLines(ExtractErrorSections(filtered))
        ELSE IF optimized.strategy = "head_only"
        THEN optimized.lines_kept
        ELSE LET half == TargetLines(max_tokens * CharsPerToken, Len(filtered),
                                     Len(lines)) \div 2
             IN  Len(SliceTo(lines, half)) + Len(SliceFrom(lines, 0 - half))

\* C28: for a log processed by _filter_logs the reported filtered_lines is the
\* number of log lines present in the reported content, also when
\* optimize_for_token_limit reduced the filter's output, and estimated_tokens
\* is len(reported content) // 4
PipelineMetadataExact ==
    pc = "reported" =>
        /\ filtered_logs[1].filtered_lines
               = LinesPresent(filter_result.content, optimize_result)
        /\ filtered_logs[1].estimated_tokens = Len(filtered_logs[1].content) \div 4

\* the file names of the attachments at the positions in chosen, in order
NamesAt(attachments, chosen) ==
    LET order == SelectSeq([i \in 1..Len(attachments) |-> i],
                           LAMBDA i : i \in chosen)
    IN  [k \in 1..Len(order) |-> attachments[order[k]].filename]

\* C30: download_all counts every attachment once, as downloaded (its file was
\* there with the same size, or the fetch ended well) or as failed (the fetch
\* returned False or raised): downloaded + failed = total, and the attachments
\* after a failed one are processed all the same
DownloadAccounting ==
    pc = "downloaded" =>
        LET attachments == download.attachments
            responses   == download.responses
            summary     == download.summary
            n           == Len(attachments)
        IN  /\ summary.downloaded + summary.failed = n
            /\ summary.downloaded = Len(summary.files)
            /\ n > 0 =>
                   /\ summary.total = n
                   /\ summary.failed = Len(summary.failed_files)
                   /\ \E counted \in SUBSET (1..n) :
                          /\ summary.files
                                 = [k \in 1..Cardinality(counted) |->
                                        <<"attachments",
                                          NamesAt(attachments, counted)[k]>>]
                          /\ summary.failed_files
                                 = NamesAt(attachments, (1..n) \ counted)
                          /\ \A i \in 1..n :
                                 responses[i] \in {"ok", "ok_empty"} => i \in counted

\* a fetch that raised, then a good one for another file: one failed, one
\* downloaded
DownloadAccountingWitness ==
    /\ pc = "downloaded"
    /\ Len(download.attachments) >= 2
    /\ download.responses[1] = "raises"
    /\ download.responses[2] = "ok"
    /\ download.attachments[1].filename # download.attachments[2].filename
    /\ download.summary.failed = 1
    /\ download.summary.downloaded = 1
    /\ download.summary.files = <<<<"attachments", download.attachments[2].filename>>>>

====
